---- MODULE Spec2Model ----
(***************************************************************************)
(* BacktestKit: the Breakout20 signal state machine                        *)
(* (src/strategies/breakout20.py) driven by a bar feed and an execution    *)
(* engine, and the equity/drawdown analyzer                                *)
(* (src/analyzers/custom_metrics.py).                                      *)
(*                                                                         *)
(* Prices, sizes, dates and portfolio values are small integers.  An       *)
(* optional value (Python None or a value) is a sequence of length <= 1.   *)
(* A quotient a / b is kept as the reduced pair <<a, b>>.                  *)
(***************************************************************************)
EXTENDS Integers, Sequences, FiniteSets, TLC

VARIABLES
    datas,            \* self.datas: the registered feeds, in registration order
    close,            \* data.close line (the last sma_window values kept)
    high,             \* data.high line (the last high_window + 1 values kept)
    low,              \* data.low[0]
    volume,           \* data.volume[0]
    atr,              \* self.atr[data][0], the average true range
    tracking,         \* self.tracking
    entry_low,        \* self.entry_low
    order_pending,    \* self.order_pending
    position,         \* self.getposition(data).size, kept by the broker
    book,             \* the broker's live orders per instrument
    phase,            \* where the engine is in its per-date cycle
    intent,           \* what process_data emitted per instrument in the last next()
    event,            \* the last callback the engine made
    raised,           \* the exception that ended the run, "none" while running
    run,              \* analyzer lifecycle: "init", "running"
    start_date,       \* analyzer: self.start_date
    start_value,      \* analyzer: self.start_value
    portfolio_values, \* analyzer: self.portfolio_values
    dates,            \* analyzer: self.dates
    daily_returns,    \* analyzer: self.daily_returns
    peak_value,       \* analyzer: self.peak_value
    max_drawdown,     \* analyzer: self.max_drawdown
    max_drawdown_duration,
    current_drawdown_duration,
    in_drawdown,
    end_value,        \* analyzer: self.end_value
    end_date,         \* analyzer: self.end_date
    trades,           \* analyzer: self.trades, the trade ledger
    winning_trades,   \* analyzer: self.winning_trades
    losing_trades,    \* analyzer: self.losing_trades
    analysis,         \* what the last get_analysis() returned
    trades_df,        \* what the last get_trades_dataframe() returned
    open_trades,      \* engine: the trades of the positions now open
    closed_trades,    \* engine: the trades it has closed, in closing order
    config,           \* the strategy section of the configuration file
    runner,           \* how far the BacktestRunner has come
    cerebro           \* the strategy class and parameters given to the engine

feedVars     == <<close, high, low, volume, atr>>
runnerVars   == <<config, runner, cerebro>>
strategyVars == <<tracking, entry_low, order_pending>>
engineVars   == <<datas, position, book, phase, intent, event>>
ledgerVars   == <<trades, winning_trades, losing_trades>>
reportVars   == <<end_value, end_date, analysis, trades_df>>
tradeVars    == <<open_trades, closed_trades>>
analyzerVars == <<run, start_date, start_value, portfolio_values, dates,
                  daily_returns, peak_value, max_drawdown,
                  max_drawdown_duration, current_drawdown_duration, in_drawdown,
                  ledgerVars, reportVars, tradeVars>>
vars == <<feedVars, strategyVars, engineVars, analyzerVars, runnerVars, raised>>

----------------------------------------------------------------------------
(* Bounds of the model *)

MaxPrice == 2        \* prices are 1..MaxPrice
MaxSize == 2         \* the sizer answers 1..MaxSize
MaxValue == 3        \* portfolio values are 0..MaxValue
MaxDate == 3         \* dates are 1..MaxDate
MaxRecords == 3      \* equity points recorded per run
MaxWindow == 2       \* configured windows are -1..MaxWindow

Prices == 1..MaxPrice
Sizes == 1..MaxSize
Values == 0..MaxValue
Dates == 1..MaxDate
WindowValues == -1..MaxWindow

----------------------------------------------------------------------------
(* Helpers *)

None == <<>>
Some(v) == <<v>>

Max(a, b) == IF a >= b THEN a ELSE b

Abs(a) == IF a < 0 THEN -a ELSE a

RECURSIVE GCD(_, _)
GCD(a, b) == IF b = 0 THEN a ELSE GCD(b, a % b)

\* a / b for b # 0, reduced, the sign carried by the numerator
Frac(a, b) ==
    LET g == GCD(Abs(a), Abs(b))
        s == IF b < 0 THEN -1 ELSE 1
    IN  <<(s * a) \div g, (s * b) \div g>>

FracLess(x, y) == x[1] * y[2] < y[1] * x[2]

RECURSIVE SumSeq(_)
SumSeq(s) == IF s = <<>> THEN 0 ELSE Head(s) + SumSeq(Tail(s))

RECURSIVE MaxSeq(_)
MaxSeq(s) == IF Len(s) = 1 THEN s[1] ELSE Max(Head(s), MaxSeq(Tail(s)))

\* the last n elements of s (all of s when it is shorter)
LastN(s, n) == IF Len(s) <= n THEN s ELSE SubSeq(s, Len(s) - n + 1, Len(s))

DataSet == {datas[i] : i \in 1..Len(datas)}

----------------------------------------------------------------------------
(* Breakout20Strategy: parameters and indicators *)

\* params: the strategy is run configured with short windows
sma_window == 2
high_window == 3

\* params of Breakout20StrategyOptimized, scaled down with the windows
max_positions == 1
min_volume == 1
volatility_filter == TRUE
atr_period == 2

\* the class the engine instantiates
strategy_class == cerebro[1].strategy

\* len(data); the lines keep at least max(sma_window, high_window) values,
\* and the code only compares len(data) with that maximum and with the
\* shorter atr_period
DataLen(d) == Max(Len(close[d]), Len(high[d]))

\* data.close[0]
current_close(d) == close[d][Len(close[d])]

\* variant: a close equal to the moving average counts as below it
CloseAtOrBelowSMA(d) ==
    /\ Len(close[d]) >= sma_window
    /\ close[d][Len(close[d])] * sma_window <= SumSeq(LastN(close[d], sma_window))

\* current_close < self.sma[data][0], the mean of the last sma_window
\* closes: close < sum / n  <=>  close * n < sum.  Before sma_window bars
\* the indicator is nan and every comparison with it is false
CloseBelowSMA(d) ==
    /\ Len(close[d]) >= sma_window
    /\ current_close(d) * sma_window < SumSeq(LastN(close[d], sma_window))

\* self.highest[data][0]: Highest(data.high, period = high_window), the
\* window ending at, and including, the current bar
HighestValue(d) == MaxSeq(LastN(high[d], high_window))

\* current_close > self.highest[data][0]; nan before high_window bars
CloseAboveHighest(d) ==
    /\ Len(high[d]) >= high_window
    /\ current_close(d) > HighestValue(d)

----------------------------------------------------------------------------
(* Breakout20Strategy.process_data, on a record st of the fields next()   *)
(* may change: tracking, order_pending, book (orders given to the broker) *)
(* and intent                                                             *)

NoIntent == [kind |-> "none", size |-> 0]

NewOrder(isbuy, size) == [isbuy |-> isbuy, size |-> size, status |-> "Created"]

\* what order_pending keeps of an order: the order without its status
Handle(order) == [isbuy |-> order.isbuy, size |-> order.size]

\* variant: the guard looks at the moving-average window alone
InsufficientHistorySmaOnly(d) == DataLen(d) < sma_window

\* if len(data) < max(sma_window, high_window): return
InsufficientHistory(d) == DataLen(d) < Max(sma_window, high_window)

\* variant: the pending order is not looked at
HasPendingIgnored(st, d) == FALSE

\* if self.order_pending[data]: return
HasPending(st, d) == st.order_pending[d] # None

\* not self.tracking[data] and current_close < sma_value
StartTracking(st, d) == ~st.tracking[d] /\ CloseBelowSMA(d)

\* variant: a breakout buys whether or not the instrument is tracked
EntryConditionUntracked(st, d) == CloseAboveHighest(d)

\* self.tracking[data] and current_close > highest_value
EntryCondition(st, d) == st.tracking[d] /\ CloseAboveHighest(d)

\* variant: a low equal to the reference low stops out as well
StopConditionInclusive(d) == entry_low[d] # None /\ low[d] <= entry_low[d][1]

\* self.entry_low[data] is not None and current_low < self.entry_low[data]
StopCondition(d) == entry_low[d] # None /\ low[d] < entry_low[d][1]

\* self.sell(data=data, size=position.size)
SellSize(d) == position[d]

Submit(st, d, isbuy, size) ==
    [st EXCEPT !.order_pending[d] = Some([isbuy |-> isbuy, size |-> size]),
               !.book[d] = Append(@, NewOrder(isbuy, size)),
               !.intent[d] = [kind |-> IF isbuy THEN "buy" ELSE "sell",
                              size |-> size]]

handle_no_position(st, d, size) ==
    LET st1 == IF StartTracking(st, d)
               THEN [st EXCEPT !.tracking[d] = TRUE]
               ELSE st
    IN  IF EntryCondition(st1, d) THEN Submit(st1, d, TRUE, size) ELSE st1

\* sum(1 for d in self.datas if self.getposition(d).size > 0)
current_positions == Cardinality({d \in DataSet : position[d] > 0})

\* current_positions >= self.params.max_positions
PositionsFull == current_positions >= max_positions

\* data.volume[0] < self.params.min_volume
VolumeTooLow(d) == volume[d] < min_volume

\* the volatility filter: (atr_value / price) > 0.05, looked at only with
\* the filter on and atr_period bars of history
TooVolatile(d) ==
    /\ volatility_filter
    /\ DataLen(d) >= atr_period
    /\ atr[d] * 100 > 5 * current_close(d)

\* variant: the filters are consulted after the tracking flag is updated
handle_no_position_filters_late(st, d, size) ==
    LET st1 == IF StartTracking(st, d)
               THEN [st EXCEPT !.tracking[d] = TRUE]
               ELSE st
    IN  IF PositionsFull \/ VolumeTooLow(d) \/ TooVolatile(d) THEN st1
        ELSE IF EntryCondition(st1, d) THEN Submit(st1, d, TRUE, size)
        ELSE st1

\* Breakout20StrategyOptimized.handle_no_position: the filters, then the
\* inherited rule
handle_no_position_optimized(st, d, size) ==
    IF PositionsFull THEN st
    ELSE IF VolumeTooLow(d) THEN st
    ELSE IF TooVolatile(d) THEN st
    ELSE handle_no_position(st, d, size)

\* self.handle_no_position(...): the method of the class that is running
self_handle_no_position(st, d, size) ==
    IF strategy_class = "Breakout20StrategyOptimized"
    THEN handle_no_position_optimized(st, d, size)
    ELSE handle_no_position(st, d, size)

handle_with_position(st, d) ==
    IF StopCondition(d) THEN Submit(st, d, FALSE, SellSize(d)) ELSE st

\* size: what the sizer answers should this call buy
process_data(st, d, size) ==
    IF InsufficientHistory(d) THEN st
    ELSE IF HasPending(st, d) THEN st
    ELSE IF position[d] = 0 THEN self_handle_no_position(st, d, size)
    ELSE handle_with_position(st, d)

\* variant: the loop stops after the first registered feed
NextLoopFirstOnly(st, i, sizer) ==
    IF Len(datas) = 0 THEN st
    ELSE [process_data(st, datas[1], sizer[datas[1]])
             EXCEPT !.evaluated = Append(@, datas[1])]

\* next(): for data in self.datas: self.process_data(data)
RECURSIVE NextLoop(_, _, _)
NextLoop(st, i, sizer) ==
    IF i > Len(datas) THEN st
    ELSE NextLoop([process_data(st, datas[i], sizer[datas[i]])
                      EXCEPT !.evaluated = Append(@, datas[i])],
                  i + 1, sizer)

----------------------------------------------------------------------------
(* Breakout20Strategy.notify_order *)

\* order: [data, isbuy, size, status]

\* if order.status in [order.Submitted, order.Accepted]: ... return
StillLive(order) == order.status \in {"Submitted", "Accepted"}

\* variant: a completed sell leaves tracking as it is
TrackingKeptAfterSell(order) == tracking[order.data]

\* variant: any fill, a buy's too, clears tracking
TrackingClearedByAnyFill(order) ==
    IF order.status = "Completed" THEN FALSE ELSE tracking[order.data]

\* self.tracking[data] after the order's notification
TrackingAfter(order) ==
    IF order.status = "Completed" /\ ~order.isbuy THEN FALSE
    ELSE tracking[order.data]

\* variant: a completed buy does not take the bar's low as reference
EntryLowNotTakenAtFill(order) ==
    IF order.status = "Completed" /\ ~order.isbuy THEN None
    ELSE entry_low[order.data]

\* variant: every notification that ends an order clears the reference low
EntryLowClearedAtEnd(order) ==
    IF order.status = "Completed" /\ order.isbuy
    THEN Some(low[order.data])
    ELSE None

\* self.entry_low[data] after the order's notification
EntryLowAfter(order) ==
    IF order.status = "Completed"
    THEN IF order.isbuy THEN Some(low[order.data]) ELSE None
    ELSE entry_low[order.data]

notify_order(order) ==
    LET d == order.data IN
    IF StillLive(order)
    THEN /\ order_pending' = [order_pending EXCEPT ![d] = Some(Handle(order))]
         /\ UNCHANGED <<tracking, entry_low>>
    ELSE /\ tracking' = [tracking EXCEPT ![d] = TrackingAfter(order)]
         /\ entry_low' = [entry_low EXCEPT ![d] = EntryLowAfter(order)]
         /\ order_pending' = [order_pending EXCEPT ![d] = None]

----------------------------------------------------------------------------
(* The run: construction, the bar feed, the broker, the strategy's next() *)

\* event: the callback, its order (if any), and whether the instrument had
\* a pending order when it came
NoEvent(op) ==
    [op |-> op, data |-> 0, isbuy |-> FALSE, size |-> 0, status |-> "",
     pending |-> FALSE, evaluated |-> <<>>]

NotifyEvent(order) ==
    [op |-> "notify_order", data |-> order.data, isbuy |-> order.isbuy,
     size |-> order.size, status |-> order.status,
     pending |-> order_pending[order.data] # None, evaluated |-> <<>>]

\* CustomMetricsAnalyzer.__init__
AnalyzerInit ==
    /\ run = "init"
    /\ start_date = None
    /\ start_value = None
    /\ portfolio_values = <<>>
    /\ dates = <<>>
    /\ daily_returns = <<>>
    /\ peak_value = 0
    /\ max_drawdown = <<0, 1>>
    /\ max_drawdown_duration = 0
    /\ current_drawdown_duration = 0
    /\ in_drawdown = FALSE
    /\ end_value = None
    /\ end_date = None
    /\ trades = <<>>
    /\ winning_trades = <<>>
    /\ losing_trades = <<>>
    /\ analysis = None
    /\ trades_df = None
    /\ open_trades = {}
    /\ closed_trades = <<>>

\* Breakout20Strategy.__init__ over the feeds in universe; no bar delivered yet
StrategyInit(universe) ==
    /\ datas = universe
    /\ close = [d \in DataSet |-> <<>>]
    /\ high = [d \in DataSet |-> <<>>]
    /\ low = [d \in DataSet |-> 0]
    /\ volume = [d \in DataSet |-> 0]
    /\ atr = [d \in DataSet |-> 0]
    /\ tracking = [d \in DataSet |-> FALSE]
    /\ entry_low = [d \in DataSet |-> None]
    /\ order_pending = [d \in DataSet |-> None]
    /\ position = [d \in DataSet |-> 0]
    /\ book = [d \in DataSet |-> <<>>]
    /\ phase = "bars"
    /\ intent = [d \in DataSet |-> NoIntent]
    /\ event = NoEvent("init")
    /\ raised = "none"

\* the configuration the model's strategy is run with
ModelConfig ==
    [name |-> Some("Breakout20"), params |-> TRUE,
     sma_window |-> Some(sma_window), high_window |-> Some(high_window)]

\* the runner past _setup_cerebro and into cerebro.run() with class cls
BacktestRunning(cls) ==
    /\ config = ModelConfig
    /\ runner = "running"
    /\ cerebro = Some([strategy |-> cls, sma_window |-> sma_window,
                       high_window |-> high_window])

Init ==
    /\ StrategyInit(<<1>>)
    /\ AnalyzerInit
    /\ BacktestRunning("Breakout20Strategy")

\* the feeds nothing validates: any high, low and close; the base strategy
\* reads neither the volume nor the average true range, so one value of each
\* stands for all
Bars == [high : Prices, low : Prices, close : Prices,
         volume : {min_volume}, atr : {0}]

\* bars of a real market day: low <= close <= high
WellFormedBars == {b \in Bars : b.low <= b.close /\ b.close <= b.high}

\* every feed advances by one bar drawn from barSet
FeedFrom(barSet) ==
    /\ raised = "none"
    /\ phase = "bars"
    /\ \E bar \in [DataSet -> barSet] :
         /\ close' = [d \in DataSet |->
                        LastN(Append(close[d], bar[d].close), sma_window)]
         /\ high' = [d \in DataSet |->
                        LastN(Append(high[d], bar[d].high), high_window + 1)]
         /\ low' = [d \in DataSet |-> bar[d].low]
         /\ volume' = [d \in DataSet |-> bar[d].volume]
         /\ atr' = [d \in DataSet |-> bar[d].atr]
    /\ phase' = "notify"
    /\ intent' = [d \in DataSet |-> NoIntent]
    /\ event' = NoEvent("feed")
    /\ UNCHANGED <<runnerVars, strategyVars, datas, position, book,
                   analyzerVars, raised>>

Feed == FeedFrom(Bars)

RemoveAt(s, i) == SubSeq(s, 1, i - 1) \o SubSeq(s, i + 1, Len(s))

\* the broker moves the i-th live order of d to status, tells the strategy,
\* and drops the order from its book when the status ends it
Deliver(d, i, status) ==
    LET o == book[d][i]
        order == [data |-> d, isbuy |-> o.isbuy, size |-> o.size, status |-> status]
    IN  /\ raised = "none"
        /\ phase = "notify"
        /\ book' = [book EXCEPT ![d] =
                      IF status \in {"Submitted", "Accepted"}
                      THEN [@ EXCEPT ![i].status = status]
                      ELSE RemoveAt(@, i)]
        /\ position' = [position EXCEPT ![d] =
                      IF status = "Completed"
                      THEN IF o.isbuy THEN @ + o.size ELSE @ - o.size
                      ELSE @]
        /\ notify_order(order)
        /\ event' = NotifyEvent(order)
        /\ UNCHANGED <<runnerVars, feedVars, datas, phase, intent, analyzerVars, raised>>

BrokerSubmitted ==
    \E d \in DataSet : \E i \in 1..Len(book[d]) :
        /\ book[d][i].status = "Created"
        /\ Deliver(d, i, "Submitted")

BrokerAccepted ==
    \E d \in DataSet : \E i \in 1..Len(book[d]) :
        /\ book[d][i].status = "Submitted"
        /\ Deliver(d, i, "Accepted")

BrokerCompleted ==
    \E d \in DataSet : \E i \in 1..Len(book[d]) :
        /\ book[d][i].status = "Accepted"
        /\ Deliver(d, i, "Completed")

BrokerRefused ==
    \E d \in DataSet : \E i \in 1..Len(book[d]) :
        \E status \in {"Canceled", "Margin", "Rejected"} :
            Deliver(d, i, status)

\* Breakout20Strategy.next(), the sizer answering each buy
StrategyNext ==
    /\ raised = "none"
    /\ phase = "notify"
    /\ \E sizer \in [DataSet -> Sizes] :
         LET st0 == [tracking |-> tracking, order_pending |-> order_pending,
                     book |-> book, intent |-> intent, evaluated |-> <<>>]
             st1 == NextLoop(st0, 1, sizer)
         IN  /\ tracking' = st1.tracking
             /\ order_pending' = st1.order_pending
             /\ book' = st1.book
             /\ intent' = st1.intent
             /\ event' = [NoEvent("next") EXCEPT !.evaluated = st1.evaluated]
    /\ phase' = "bars"
    /\ UNCHANGED <<runnerVars, feedVars, entry_low, datas, position, analyzerVars, raised>>

\* a protocol violation by the engine: a fill notified for an instrument
\* with no order pending and none on the book; no order executed, so the
\* position is as it was
RogueFill ==
    /\ raised = "none"
    /\ phase = "notify"
    /\ \E d \in DataSet, isbuy \in BOOLEAN, size \in Sizes :
         LET order == [data |-> d, isbuy |-> isbuy, size |-> size,
                       status |-> "Completed"]
         IN  /\ order_pending[d] = None
             /\ book[d] = <<>>
             /\ notify_order(order)
             /\ event' = NotifyEvent(order)
    /\ UNCHANGED <<runnerVars, feedVars, datas, position, book, phase, intent,
                   analyzerVars, raised>>

\* a feed of real market days
FeedClean == FeedFrom(WellFormedBars)

Next ==
    \/ Feed
    \/ BrokerSubmitted
    \/ BrokerAccepted
    \/ BrokerCompleted
    \/ BrokerRefused
    \/ StrategyNext

Spec == Init /\ [][Next]_vars

\* the run with an engine that may notify fills nobody ordered
NextRogue ==
    \/ Next
    \/ RogueFill

SpecRogue == Init /\ [][NextRogue]_vars

\* a broker that fills an entry in parts (a volume filler): part of the only
\* live, accepted buy of a flat instrument executes; the order stays on the
\* book for the rest and the strategy is notified with status Partial
BrokerPartial ==
    \E d \in DataSet, part \in Sizes :
        LET o == book[d][1]
            order == [data |-> d, isbuy |-> o.isbuy, size |-> o.size,
                      status |-> "Partial"]
        IN  /\ raised = "none"
            /\ phase = "notify"
            /\ Len(book[d]) = 1
            /\ o.status = "Accepted"
            /\ o.isbuy
            /\ position[d] = 0
            /\ part < o.size
            /\ book' = [book EXCEPT ![d][1].size = o.size - part]
            /\ position' = [position EXCEPT ![d] =
                               IF o.isbuy THEN @ + part ELSE @ - part]
            /\ notify_order(order)
            /\ event' = NotifyEvent(order)
            /\ UNCHANGED <<runnerVars, feedVars, datas, phase, intent, analyzerVars,
                           raised>>

\* the run with a broker that may fill in parts
NextPartial ==
    \/ Next
    \/ BrokerPartial

SpecPartial == Init /\ [][NextPartial]_vars

----------------------------------------------------------------------------
(* A universe of two instruments, under either strategy class *)

\* bars of the universe: flat highs and lows, so that a close of 2 breaks
\* out and a close of 1 after it dips under the average; the dip liquid or
\* thin, the breakout calm or volatile
UniverseBars ==
    { [high |-> 1, low |-> 1, close |-> 1, volume |-> min_volume, atr |-> 0],
      [high |-> 1, low |-> 1, close |-> 1, volume |-> 0, atr |-> 0],
      [high |-> 1, low |-> 1, close |-> 2, volume |-> min_volume, atr |-> 0],
      [high |-> 1, low |-> 1, close |-> 2, volume |-> min_volume, atr |-> 1] }

FeedUniverse == FeedFrom(UniverseBars)

InitUniverse ==
    /\ StrategyInit(<<1, 2>>)
    /\ AnalyzerInit
    /\ \E cls \in {"Breakout20Strategy", "Breakout20StrategyOptimized"} :
         BacktestRunning(cls)

NextUniverse ==
    \/ FeedUniverse
    \/ BrokerSubmitted
    \/ BrokerAccepted
    \/ BrokerCompleted
    \/ BrokerRefused
    \/ StrategyNext

SpecUniverse == InitUniverse /\ [][NextUniverse]_vars

\* the run on well-formed bars
NextClean ==
    \/ FeedClean
    \/ StrategyNext

SpecClean == Init /\ [][NextClean]_vars

----------------------------------------------------------------------------
(* ConfigLoader and BacktestRunner: from the configuration to the strategy *)

StrategyNames == {"Breakout20", "Momentum"}

\* the strategy sections a configuration file can hold: name and params
\* present or not, and under params each window present or not
Configs ==
    { c \in [name : {None} \cup {Some(n) : n \in StrategyNames},
             params : BOOLEAN,
             sma_window : {None} \cup {Some(w) : w \in WindowValues},
             high_window : {None} \cup {Some(w) : w \in WindowValues}] :
        ~c.params => (c.sma_window = None /\ c.high_window = None) }

\* variant: only a negative window is refused
NegativeOnly(w) == w < 0

\* params[param] <= 0
NotPositive(w) == w <= 0

\* for param in ['sma_window', 'high_window']: missing or not positive
BadRequiredParam(c) ==
    \E w \in {c.sma_window, c.high_window} : w = None \/ NotPositive(w[1])

\* ConfigLoader._validate_strategy_config: the exception it raises
_validate_strategy_config(c) ==
    IF c.name = None THEN "ValueError"
    ELSE IF ~c.params THEN "ValueError"
    ELSE IF c.name[1] = "Breakout20" /\ BadRequiredParam(c) THEN "ValueError"
    ELSE "none"

\* BacktestRunner.__init__: self.config = ConfigLoader(config_path)
ConfigLoaderInit ==
    /\ raised = "none"
    /\ runner = "init"
    /\ raised' = _validate_strategy_config(config)
    /\ runner' = IF raised' = "none" THEN "configured" ELSE runner
    /\ UNCHANGED <<config, cerebro, feedVars, strategyVars, engineVars,
                   analyzerVars>>

\* BacktestRunner._setup_cerebro: the strategy is added for Breakout20 alone
_setup_cerebro ==
    /\ raised = "none"
    /\ runner = "configured"
    /\ IF config.name[1] = "Breakout20"
       THEN /\ cerebro' = Some([strategy |-> "Breakout20Strategy",
                                sma_window |-> config.sma_window[1],
                                high_window |-> config.high_window[1]])
            /\ runner' = "ready"
            /\ UNCHANGED raised
       ELSE /\ raised' = "ValueError"
            /\ UNCHANGED <<cerebro, runner>>
    /\ UNCHANGED <<config, feedVars, strategyVars, engineVars, analyzerVars>>

\* BacktestRunner._run_backtest: cerebro.run() constructs the strategy
_run_backtest ==
    /\ raised = "none"
    /\ runner = "ready"
    /\ runner' = "running"
    /\ UNCHANGED <<config, cerebro, raised, feedVars, strategyVars,
                   engineVars, analyzerVars>>

\* a runner about to be constructed on any strategy section
InitConfig ==
    /\ StrategyInit(<<1>>)
    /\ AnalyzerInit
    /\ config \in Configs
    /\ runner = "init"
    /\ cerebro = None

NextConfig ==
    \/ ConfigLoaderInit
    \/ _setup_cerebro
    \/ _run_backtest

SpecConfig == InitConfig /\ [][NextConfig]_vars

----------------------------------------------------------------------------
(* CustomMetricsAnalyzer: start(), next() and _update_drawdown()          *)

\* a drawdown that forgets the deepest one and keeps only the latest
FracLatest(a, b) == b

\* python's max(a, b) on quotients: b only when it is greater
FracMax(a, b) == IF FracLess(a, b) THEN b ELSE a

\* a recovery that leaves the drawdown day count running
DurationKeptAfterRecovery == current_drawdown_duration

\* the day count after a new high: zeroed when the drawdown ends
DurationAfterRecovery ==
    IF in_drawdown THEN 0 ELSE current_drawdown_duration

\* an _update_drawdown that takes a value equal to the peak for a new high
_update_drawdown_equal_is_high(pk, current_value) ==
    IF current_value >= pk
    THEN [peak_value |-> current_value,
          in_drawdown |-> FALSE,
          current_drawdown_duration |-> DurationAfterRecovery,
          max_drawdown_duration |-> max_drawdown_duration,
          max_drawdown |-> max_drawdown,
          raised |-> "none"]
    ELSE LET cur == current_drawdown_duration + 1 IN
         [peak_value |-> pk,
          in_drawdown |-> TRUE,
          current_drawdown_duration |-> cur,
          max_drawdown_duration |-> Max(max_drawdown_duration, cur),
          max_drawdown |->
              FracMax(max_drawdown, Frac(pk - current_value, pk)),
          raised |-> "none"]

\* _update_drawdown(current_value) with self.peak_value = pk: the fields it
\* leaves, and the exception it ends with
_update_drawdown(pk, current_value) ==
    IF current_value > pk
    THEN [peak_value |-> current_value,
          in_drawdown |-> FALSE,
          current_drawdown_duration |-> DurationAfterRecovery,
          max_drawdown_duration |-> max_drawdown_duration,
          max_drawdown |-> max_drawdown,
          raised |-> "none"]
    ELSE LET cur == current_drawdown_duration + 1 IN
         [peak_value |-> pk,
          in_drawdown |-> TRUE,
          current_drawdown_duration |-> cur,
          max_drawdown_duration |-> Max(max_drawdown_duration, cur),
          max_drawdown |->
              IF pk = 0 THEN max_drawdown
              ELSE FracMax(max_drawdown, Frac(pk - current_value, pk)),
          raised |-> IF pk = 0 THEN "ZeroDivisionError" ELSE "none"]

\* start(): the peak starts at the broker's cash
AnalyzerStart ==
    /\ raised = "none"
    /\ run = "init"
    /\ \E cash \in Values : peak_value' = cash
    /\ run' = "running"
    /\ UNCHANGED <<runnerVars, feedVars, strategyVars, engineVars, raised, start_date,
                   start_value, portfolio_values, dates, daily_returns,
                   max_drawdown, max_drawdown_duration,
                   current_drawdown_duration, in_drawdown,
                   ledgerVars, reportVars, tradeVars>>

\* a first record that keeps the peak start() took from the broker
PeakKeptFromStart(current_value) == peak_value

\* the peak next() hands to _update_drawdown: the first record replaces the
\* peak of start() by its own value
PeakAtRecord(current_value) ==
    IF start_date = None THEN current_value ELSE peak_value

\* next() on a day dated current_date with the broker valued current_value
next(current_date, current_value) ==
    LET first == start_date = None
        pk == PeakAtRecord(current_value)
        values == Append(portfolio_values, current_value)
        n == Len(values)
        divides == n > 1
        prev == IF divides THEN values[n - 1] ELSE 1
        dd == _update_drawdown(pk, current_value)
    IN  /\ start_date' = IF first THEN Some(current_date) ELSE start_date
        /\ start_value' = IF first THEN Some(current_value) ELSE start_value
        /\ portfolio_values' = values
        /\ dates' = Append(dates, current_date)
        /\ IF divides /\ prev = 0
           THEN /\ raised' = "ZeroDivisionError"
                /\ peak_value' = pk
                /\ UNCHANGED <<daily_returns, max_drawdown, max_drawdown_duration,
                               current_drawdown_duration, in_drawdown>>
           ELSE /\ daily_returns' =
                     IF divides
                     THEN Append(daily_returns, Frac(current_value - prev, prev))
                     ELSE daily_returns
                /\ peak_value' = dd.peak_value
                /\ in_drawdown' = dd.in_drawdown
                /\ current_drawdown_duration' = dd.current_drawdown_duration
                /\ max_drawdown_duration' = dd.max_drawdown_duration
                /\ max_drawdown' = dd.max_drawdown
                /\ raised' = dd.raised

\* the engine calls the analyzer's next() once per simulated day
AnalyzerNext ==
    /\ raised = "none"
    /\ run = "running"
    /\ Len(portfolio_values) < MaxRecords
    /\ \E current_date \in Dates, current_value \in Values :
         next(current_date, current_value)
    /\ UNCHANGED <<runnerVars, feedVars, strategyVars, engineVars, run,
                   ledgerVars, reportVars, tradeVars>>

NextMetrics ==
    \/ AnalyzerStart
    \/ AnalyzerNext

SpecMetrics == Init /\ [][NextMetrics]_vars

----------------------------------------------------------------------------
(* CustomMetricsAnalyzer: notify_trade(), stop() and the trade ledger      *)

\* trade.pnlcomm of a closed trade
Pnls == {-700, -100, 0, 300}

\* the equity curve of the worked example
ExampleEquity == <<100, 90, 95, 80, 120>>

\* what the sizer buys in the worked example: 2 units at 1.125
ExampleLots == {[size |-> 2, price |-> <<9, 8>>]}

\* the instruments of the trades the engine has closed
ClosedData == {closed_trades[i].data : i \in 1..Len(closed_trades)}

\* the date of the bar the engine is processing: notifications of a bar are
\* delivered before the analyzer's next() records it
today == Len(dates) + 1

\* the trade the engine opens on data d: bought size at price on today
OpenedTrade(d, size, price) ==
    [ref |-> Cardinality(open_trades) + Len(closed_trades) + 1,
     data |-> d, isclosed |-> FALSE, size |-> size, price |-> price,
     dtopen |-> today, dtclose |-> 0, pnl |-> 0, pnlcomm |-> 0,
     commission |-> 0]

\* the trade t once its position is sold out on today: the size is back to
\* 0 and the profit is final
ClosedTrade(t, pnlcomm, commission) ==
    [t EXCEPT !.isclosed = TRUE, !.size = 0, !.dtclose = today,
              !.pnl = pnlcomm + commission, !.pnlcomm = pnlcomm,
              !.commission = commission]

\* a ledger that also books the notification of a trade just opened
isclosed_or_open(trade) == TRUE

\* trade.isclosed
isclosed(trade) == trade.isclosed

\* a split that books a break-even trade as a win
is_winning_or_even(trade) == trade.pnlcomm >= 0

\* trade.pnlcomm > 0
is_winning(trade) == trade.pnlcomm > 0

\* trade.pnlcomm < 0
is_losing(trade) == trade.pnlcomm < 0

\* the dict notify_trade builds from a closed trade
trade_info(trade) ==
    [entry_date |-> trade.dtopen,
     exit_date |-> trade.dtclose,
     symbol |-> trade.data,
     size |-> trade.size,
     entry_price |-> trade.price,
     exit_price |-> IF trade.size # 0
                    THEN Frac(trade.pnlcomm * trade.price[2]
                                  + trade.price[1] * trade.size,
                              trade.size * trade.price[2])
                    ELSE <<0, 1>>,
     pnl |-> trade.pnl,
     pnl_comm |-> trade.pnlcomm,
     commission |-> trade.commission,
     duration |-> trade.dtclose - trade.dtopen,
     return_pct |-> IF trade.price[1] # 0 /\ trade.size # 0
                    THEN Frac(trade.pnl * 100 * trade.price[2],
                              Abs(trade.size) * trade.price[1])
                    ELSE <<0, 1>>]

\* notify_trade(trade)
notify_trade(trade) ==
    IF isclosed(trade)
    THEN /\ trades' = Append(trades, trade_info(trade))
         /\ winning_trades' =
                IF is_winning(trade)
                THEN Append(winning_trades, trade_info(trade))
                ELSE winning_trades
         /\ losing_trades' =
                IF ~is_winning(trade) /\ is_losing(trade)
                THEN Append(losing_trades, trade_info(trade))
                ELSE losing_trades
    ELSE UNCHANGED <<trades, winning_trades, losing_trades>>

\* the engine fills a buy on an instrument with no open trade and notifies
\* the trade just opened; in the worked example an instrument is entered
\* once
TradeOpened ==
    /\ raised = "none"
    /\ run = "running"
    /\ Len(dates) < Len(ExampleEquity)
    /\ \E d \in DataSet \ ClosedData, lot \in ExampleLots :
         /\ \A t \in open_trades : t.data # d
         /\ open_trades' =
                open_trades \cup {OpenedTrade(d, lot.size, lot.price)}
         /\ notify_trade(OpenedTrade(d, lot.size, lot.price))
    /\ UNCHANGED <<runnerVars, feedVars, strategyVars, engineVars, raised, run, start_date,
                   start_value, portfolio_values, dates, daily_returns,
                   peak_value, max_drawdown, max_drawdown_duration,
                   current_drawdown_duration, in_drawdown, reportVars,
                   closed_trades>>

\* the engine fills the sell of an open position on a later bar and
\* notifies the closed trade
TradeClosed ==
    /\ raised = "none"
    /\ run = "running"
    /\ Len(dates) < Len(ExampleEquity)
    /\ \E t \in open_trades, pnlcomm \in Pnls :
         /\ today > t.dtopen
         /\ open_trades' = open_trades \ {t}
         /\ closed_trades' = Append(closed_trades, ClosedTrade(t, pnlcomm, 0))
         /\ notify_trade(ClosedTrade(t, pnlcomm, 0))
    /\ UNCHANGED <<runnerVars, feedVars, strategyVars, engineVars, raised, run, start_date,
                   start_value, portfolio_values, dates, daily_returns,
                   peak_value, max_drawdown, max_drawdown_duration,
                   current_drawdown_duration, in_drawdown, reportVars>>

\* next() on the days of the worked example, in order
ExampleNext ==
    /\ raised = "none"
    /\ run = "running"
    /\ Len(portfolio_values) < Len(ExampleEquity)
    /\ next(today, ExampleEquity[Len(portfolio_values) + 1])
    /\ UNCHANGED <<runnerVars, feedVars, strategyVars, engineVars, run,
                   ledgerVars, reportVars, tradeVars>>

\* stop(): the broker's value and the date of the last bar
AnalyzerStop ==
    /\ raised = "none"
    /\ run = "running"
    /\ portfolio_values # <<>>
    /\ run' = "stopped"
    /\ end_value' = Some(portfolio_values[Len(portfolio_values)])
    /\ end_date' = Some(dates[Len(dates)])
    /\ UNCHANGED <<runnerVars, feedVars, strategyVars, engineVars, raised, start_date,
                   start_value, portfolio_values, dates, daily_returns,
                   peak_value, max_drawdown, max_drawdown_duration,
                   current_drawdown_duration, in_drawdown, ledgerVars,
                   analysis, trades_df, tradeVars>>

----------------------------------------------------------------------------
(* CustomMetricsAnalyzer: the _calculate_* methods and get_analysis()      *)
(*                                                                         *)
(* Quotients are exact.  A float that comes out of ** or math.sqrt is kept *)
(* as the record of the exact quantities it is computed from.              *)

\* x + y and x - y over the least common denominator
FracAdd(x, y) ==
    LET lcm == (x[2] \div GCD(x[2], y[2])) * y[2]
    IN  Frac(x[1] * (lcm \div x[2]) + y[1] * (lcm \div y[2]), lcm)

FracSub(x, y) == FracAdd(x, <<-y[1], y[2]>>)

FracMul(x, y) == Frac(x[1] * y[1], x[2] * y[2])
FracDiv(x, y) == Frac(x[1] * y[2], x[2] * y[1])

RECURSIVE FracSum(_)
FracSum(s) == IF s = <<>> THEN <<0, 1>> ELSE FracAdd(Head(s), FracSum(Tail(s)))

RECURSIVE Pow(_, _)
Pow(b, n) == IF n = 0 THEN 1 ELSE b * Pow(b, n - 1)

\* float('inf')
inf == <<1, 0>>

\* round(x, digits) of the quotient x: to the nearest multiple of
\* 10^-digits, a tie to the even one
round(x, digits) ==
    LET scale == Pow(10, digits)
        n == x[1] * scale
        floor == n \div x[2]
        rest == n - floor * x[2]
        nearest == IF 2 * rest < x[2] THEN floor
                   ELSE IF 2 * rest > x[2] THEN floor + 1
                   ELSE IF floor % 2 = 0 THEN floor ELSE floor + 1
    IN  Frac(nearest, scale)

\* round(x, digits) of a float kept as a record: 0.0 stays 0.0
rounded(x, digits) == [x EXCEPT !.digits = digits]

\* python's `not v` for a number that may be None: None and 0 are false
Falsy(v) == v = None \/ v[1] = 0

\* a summary value that is a str, and one that is a float
PyStr(s) == [str |-> Some(s), float |-> None]
PyFloat(x) == [str |-> None, float |-> Some(x)]

\* date.strftime('%Y-%m-%d'): one string per day
strftime(date) == "day-" \o ToString(date)

\* trade['pnl_comm'] for trade in a list of trade dicts
pnl_comms(list) == [i \in 1..Len(list) |-> list[i].pnl_comm]

\* x ** (1 / years) leaves the float range (OverflowError) from 2^1024 on:
\* with years = days / 365.25 that is x >= 6.98^days; no quotient of two
\* values within the bounds lies between 6.98^days and 7^days
pow_overflows(x, days) == x[1] >= Pow(7, days) * x[2]

\* _calculate_cagr(): the exception it ends with, and the float returned,
\* which is 0.0 or (base ** (365.25 / days) - 1) * 100
_calculate_cagr ==
    IF Falsy(start_value) \/ Falsy(end_value)
           \/ start_date = None \/ end_date = None
    THEN [raised |-> "none", zero |-> TRUE, base |-> <<1, 1>>, days |-> 0,
          digits |-> 17]
    ELSE LET total_days == end_date[1] - start_date[1]
             base == Frac(end_value[1], start_value[1])
         IN  IF total_days <= 0
             THEN [raised |-> "none", zero |-> TRUE, base |-> <<1, 1>>,
                   days |-> 0, digits |-> 17]
             ELSE IF pow_overflows(base, total_days)
             THEN [raised |-> "OverflowError", zero |-> FALSE, base |-> base,
                   days |-> total_days, digits |-> 17]
             ELSE IF base = <<1, 1>>
             THEN [raised |-> "none", zero |-> TRUE, base |-> <<1, 1>>,
                   days |-> 0, digits |-> 17]
             ELSE [raised |-> "none", zero |-> FALSE, base |-> base,
                   days |-> total_days, digits |-> 17]

\* _calculate_total_return()
_calculate_total_return ==
    IF Falsy(start_value) \/ Falsy(end_value)
    THEN <<0, 1>>
    ELSE Frac((end_value[1] - start_value[1]) * 100, start_value[1])

\* sum(self.daily_returns) / len(self.daily_returns)
mean_daily_return == FracDiv(FracSum(daily_returns), <<Len(daily_returns), 1>>)

\* the sample variance of the daily returns
variance ==
    LET mean == mean_daily_return
        deviation == [i \in 1..Len(daily_returns) |->
                        FracSub(daily_returns[i], mean)]
        squares == [i \in 1..Len(daily_returns) |->
                      FracMul(deviation[i], deviation[i])]
    IN  FracDiv(FracSum(squares), <<Len(daily_returns) - 1, 1>>)

\* _calculate_sharpe_ratio(): 0.0, or
\* ((1 + mean) ** 252 - 1 - 0.01) / (sqrt(variance) * sqrt(252)); within
\* the bounds 1 + mean stays below the 16.7 at which ** 252 leaves the
\* float range
_calculate_sharpe_ratio ==
    IF daily_returns = <<>> \/ Len(daily_returns) < 2
    THEN [zero |-> TRUE, mean |-> <<0, 1>>, variance |-> <<0, 1>>,
          digits |-> 17]
    ELSE LET annual_std_squared == variance IN
         IF annual_std_squared = <<0, 1>>
         THEN [zero |-> TRUE, mean |-> <<0, 1>>, variance |-> <<0, 1>>,
               digits |-> 17]
         ELSE [zero |-> FALSE, mean |-> mean_daily_return,
               variance |-> annual_std_squared, digits |-> 17]

\* _calculate_win_rate(): a percentage
_calculate_win_rate ==
    IF Len(trades) = 0
    THEN <<0, 1>>
    ELSE Frac(Len(winning_trades) * 100, Len(trades))

\* the quotient _calculate_profit_factor returns, total_loss being
\* abs(sum of the losing trades)
profit_factor_of(total_profit, total_loss) ==
    IF total_loss = 0
    THEN IF total_profit > 0 THEN inf ELSE <<0, 1>>
    ELSE Frac(total_profit, total_loss)

\* _calculate_profit_factor()
_calculate_profit_factor ==
    profit_factor_of(SumSeq(pnl_comms(winning_trades)),
                     Abs(SumSeq(pnl_comms(losing_trades))))

\* _calculate_average_trade()
_calculate_average_trade ==
    [avg_win |-> IF winning_trades # <<>>
                 THEN Frac(SumSeq(pnl_comms(winning_trades)),
                           Len(winning_trades))
                 ELSE <<0, 1>>,
     avg_loss |-> IF losing_trades # <<>>
                  THEN Frac(SumSeq(pnl_comms(losing_trades)),
                            Len(losing_trades))
                  ELSE <<0, 1>>]

\* _calculate_volatility(): 0.0, or sqrt(variance) * sqrt(252) * 100
_calculate_volatility ==
    IF daily_returns = <<>> \/ Len(daily_returns) < 2
    THEN [zero |-> TRUE, variance |-> <<0, 1>>, digits |-> 17]
    ELSE LET daily_variance == variance IN
         [zero |-> daily_variance = <<0, 1>>, variance |-> daily_variance,
          digits |-> 17]

\* the keys of the OrderedDict, in the order get_analysis inserts them
SummaryKeys ==
    <<"start_date", "end_date", "start_value", "end_value",
      "total_return_pct", "cagr_pct", "sharpe_ratio", "volatility_pct",
      "max_drawdown_pct", "max_drawdown_duration",
      "total_trades", "winning_trades", "losing_trades", "win_rate_pct",
      "profit_factor",
      "avg_winning_trade", "avg_losing_trade", "best_trade", "worst_trade",
      "avg_duration_days", "total_commission", "trading_days">>

\* a summary whose profit factor is rounded whatever it is
profit_factor_unguarded(profit_factor) ==
    PyFloat(IF profit_factor = inf THEN inf ELSE round(profit_factor, 2))

\* round(profit_factor, 2) if profit_factor != float('inf') else 'Inf'
profit_factor_entry(profit_factor) ==
    IF profit_factor # inf
    THEN PyFloat(round(profit_factor, 2))
    ELSE PyStr("Inf")

\* get_analysis(): the OrderedDict as the sequence of its items, when no
\* _calculate_* method raises
get_analysis ==
    LET cagr == _calculate_cagr
        best_trade == IF trades # <<>> THEN MaxSeq(pnl_comms(trades)) ELSE 0
        worst_trade ==
            IF trades # <<>>
            THEN -MaxSeq([i \in 1..Len(trades) |-> -trades[i].pnl_comm])
            ELSE 0
        avg_duration ==
            IF trades # <<>>
            THEN Frac(SumSeq([i \in 1..Len(trades) |-> trades[i].duration]),
                      Len(trades))
            ELSE <<0, 1>>
    IN  <<
        <<"start_date",
          IF start_date # None THEN strftime(start_date[1]) ELSE "">>,
        <<"end_date", IF end_date # None THEN strftime(end_date[1]) ELSE "">>,
        <<"start_value", IF Falsy(start_value) THEN 0 ELSE start_value[1]>>,
        <<"end_value", IF Falsy(end_value) THEN 0 ELSE end_value[1]>>,
        <<"total_return_pct", round(_calculate_total_return, 2)>>,
        <<"cagr_pct",
          rounded([zero |-> cagr.zero, base |-> cagr.base,
                   days |-> cagr.days, digits |-> 17], 2)>>,
        <<"sharpe_ratio", rounded(_calculate_sharpe_ratio, 3)>>,
        <<"volatility_pct", rounded(_calculate_volatility, 2)>>,
        <<"max_drawdown_pct", round(FracMul(max_drawdown, <<100, 1>>), 2)>>,
        <<"max_drawdown_duration", max_drawdown_duration>>,
        <<"total_trades", Len(trades)>>,
        <<"winning_trades", Len(winning_trades)>>,
        <<"losing_trades", Len(losing_trades)>>,
        <<"win_rate_pct", round(_calculate_win_rate, 2)>>,
        <<"profit_factor", profit_factor_entry(_calculate_profit_factor)>>,
        <<"avg_winning_trade", round(_calculate_average_trade.avg_win, 2)>>,
        <<"avg_losing_trade", round(_calculate_average_trade.avg_loss, 2)>>,
        <<"best_trade", round(<<best_trade, 1>>, 2)>>,
        <<"worst_trade", round(<<worst_trade, 1>>, 2)>>,
        <<"avg_duration_days", round(avg_duration, 1)>>,
        <<"total_commission",
          round(<<SumSeq([i \in 1..Len(trades) |-> trades[i].commission]),
                  1>>, 2)>>,
        <<"trading_days", Len(portfolio_values)>>
        >>

\* summary[key]
Item(summary, key) ==
    summary[CHOOSE i \in 1..Len(summary) : summary[i][1] = key][2]

\* a get_analysis() that hands the ledger over and starts a fresh one
LedgerAfterDraining == <<>>

\* get_analysis() assigns no attribute: the ledger after it is the ledger
\* before it
LedgerAfterAnalysis == trades

\* the report (main.py _analyze_results) asks the stopped analyzer for its
\* summary
GetAnalysis ==
    /\ raised = "none"
    /\ run = "stopped"
    /\ IF _calculate_cagr.raised # "none"
       THEN /\ raised' = _calculate_cagr.raised
            /\ analysis' = analysis
       ELSE /\ raised' = raised
            /\ analysis' = Some(get_analysis)
    /\ trades' = LedgerAfterAnalysis
    /\ UNCHANGED <<runnerVars, feedVars, strategyVars, engineVars, run, start_date,
                   start_value, portfolio_values, dates, daily_returns,
                   peak_value, max_drawdown, max_drawdown_duration,
                   current_drawdown_duration, in_drawdown, end_value,
                   end_date, trades_df, winning_trades, losing_trades,
                   tradeVars>>

\* the orders of 1..n
RowOrders(n) ==
    {p \in [1..n -> 1..n] : \A i, j \in 1..n : p[i] = p[j] => i = j}

\* variant: the rows are left in ledger order
sort_values_skipped(rows) == {rows}

\* df.sort_values('entry_date').reset_index(drop=True): the rows by
\* non-decreasing entry date; rows of one date in any order (the default
\* sort is not stable)
sort_values(rows) ==
    {sorted \in {[i \in 1..Len(rows) |-> rows[p[i]]] :
                     p \in RowOrders(Len(rows))} :
        \A i \in 1..(Len(sorted) - 1) :
            sorted[i].entry_date <= sorted[i + 1].entry_date}

\* df[col].round(2) over the numeric columns; pnl, pnl_comm and commission
\* are whole numbers here and kept as such
round_columns(row) ==
    [row EXCEPT !.entry_price = round(@, 2),
                !.exit_price = round(@, 2),
                !.pnl = round(Frac(@, 1), 2)[1],
                !.pnl_comm = round(Frac(@, 1), 2)[1],
                !.commission = round(Frac(@, 1), 2)[1],
                !.return_pct = round(@, 2)]

\* get_trades_dataframe(): the tables it can return
get_trades_dataframe ==
    IF trades = <<>> THEN {<<>>}
    ELSE {[i \in 1..Len(sorted) |-> round_columns(sorted[i])] :
              sorted \in sort_values(trades)}

\* the runner exports the trade table after the run
GetTradesDataframe ==
    /\ raised = "none"
    /\ run = "stopped"
    /\ \E df \in get_trades_dataframe : trades_df' = Some(df)
    /\ UNCHANGED <<runnerVars, feedVars, strategyVars, engineVars, raised,
                   run, start_date, start_value, portfolio_values, dates,
                   daily_returns, peak_value, max_drawdown,
                   max_drawdown_duration, current_drawdown_duration,
                   in_drawdown, end_value, end_date, analysis, ledgerVars,
                   tradeVars>>

\* a run over the worked example: two instruments traded while the equity
\* curve is recorded, then the summary
InitReport ==
    /\ StrategyInit(<<1, 2>>)
    /\ AnalyzerInit
    /\ BacktestRunning("Breakout20Strategy")

NextReport ==
    \/ AnalyzerStart
    \/ ExampleNext
    \/ TradeOpened
    \/ TradeClosed
    \/ AnalyzerStop
    \/ GetAnalysis
    \/ GetTradesDataframe

SpecReport == InitReport /\ [][NextReport]_vars

\* portfolio values of a run whose equity can multiply sevenfold in a day
GrowthValues == {0, 1, 7}

\* the engine calls next() on a day of such a run
AnalyzerNextGrowth ==
    /\ raised = "none"
    /\ run = "running"
    /\ Len(portfolio_values) < MaxRecords
    /\ \E current_date \in Dates, current_value \in GrowthValues :
         next(current_date, current_value)
    /\ UNCHANGED <<runnerVars, feedVars, strategyVars, engineVars, run,
                   ledgerVars, reportVars, tradeVars>>

NextGrowth ==
    \/ AnalyzerStart
    \/ AnalyzerNextGrowth
    \/ AnalyzerStop
    \/ GetAnalysis

SpecGrowth == Init /\ [][NextGrowth]_vars

----------------------------------------------------------------------------
(* Properties *)

\* the step is a call of the strategy's next()
NextStep == phase = "notify" /\ phase' = "bars"

\* the step is a call of notify_order for d with one of the statuses
NotifiedStep(d, statuses) ==
    /\ event'.op = "notify_order"
    /\ event'.data = d
    /\ event'.status \in statuses

\* the last callback was notify_order for d with one of the statuses
Notified(d, statuses) ==
    /\ event.op = "notify_order"
    /\ event.data = d
    /\ event.status \in statuses

\* len(data) has reached both windows
EnoughHistory(d) == DataLen(d) >= sma_window /\ DataLen(d) >= high_window

\* the current close is strictly below the mean of the last sma_window closes
BelowMovingAverage(d) ==
    LET c == close[d]
        n == Len(c)
    IN  /\ n >= sma_window
        /\ sma_window * c[n] < SumSeq(SubSeq(c, n - sma_window + 1, n))

\* the maximum high of the high_window bars before the current one
PriorHigh(d) ==
    LET h == high[d]
        n == Len(h)
    IN  MaxSeq(SubSeq(h, n - high_window, n - 1))

\* C1: for a flat, tracking instrument with no pending order and enough
\* history, next() emits a buy intent on a bar exactly when the bar's close
\* is strictly greater than the maximum high of the high_window bars before
\* it (the bar's own high excluded).
C1_BuyIffCloseAbovePriorHigh ==
    [][\A d \in DataSet :
          ( /\ NextStep
            /\ position[d] = 0
            /\ tracking[d]
            /\ order_pending[d] = None
            /\ EnoughHistory(d)
            /\ Len(high[d]) = high_window + 1 )
          => (intent'[d].kind = "buy" <=> current_close(d) > PriorHigh(d))]_vars

\* C2: at most one order per instrument is outstanding; the strategy's
\* pending record is that order; and a next() that runs while an order
\* submitted earlier is still outstanding emits nothing for the instrument.
C2_OneOutstandingOrder ==
    \A d \in DataSet :
        /\ Len(book[d]) <= 1
        /\ (book[d] # <<>> => order_pending[d] = Some(Handle(book[d][1])))
        /\ (book[d] # <<>> /\ book[d][1].status # "Created"
               => intent[d] = NoIntent)
        /\ (intent[d].kind # "none"
               => book[d] = <<NewOrder(intent[d].kind = "buy", intent[d].size)>>)

\* a next() ran on a breakout bar of a flat, tracking instrument whose buy
\* was still outstanding, and emitted nothing
C2_Witness ==
    \E d \in DataSet :
        /\ event.op = "next"
        /\ book[d] # <<>>
        /\ book[d][1].status = "Accepted"
        /\ position[d] = 0
        /\ tracking[d]
        /\ CloseAboveHighest(d)
        /\ intent[d] = NoIntent

\* C3: after a next() that found the instrument with an open position and
\* no pending order, the reference low is defined, a sell intent was
\* emitted exactly if the bar's low is strictly below it, no buy was
\* emitted, and the sell asks for the whole position.
C3_StopLossExit ==
    \A d \in DataSet :
        ( /\ event.op = "next"
          /\ position[d] > 0
          /\ (order_pending[d] = None \/ intent[d].kind # "none") )
        => /\ entry_low[d] # None
           /\ (intent[d].kind = "sell" <=> low[d] < entry_low[d][1])
           /\ intent[d].kind # "buy"
           /\ (intent[d].kind = "sell" => intent[d].size = position[d])

\* a stop-loss exit of a position of more than one unit
C3_Witness ==
    \E d \in DataSet :
        /\ event.op = "next"
        /\ position[d] > 1
        /\ intent[d] = [kind |-> "sell", size |-> position[d]]

\* C4: right after a completed sell is notified the instrument is not
\* tracking and has no reference low; a buy intent is only emitted for a
\* tracking instrument; and tracking only starts in a next() on a bar whose
\* close is strictly below the moving average.
C4_SellFillResets ==
    /\ [](\A d \in DataSet :
            (Notified(d, {"Completed"}) /\ ~event.isbuy)
            => (~tracking[d] /\ entry_low[d] = None))
    /\ [](\A d \in DataSet :
            (event.op = "next" /\ intent[d].kind = "buy") => tracking[d])
    /\ [][\A d \in DataSet :
            (~tracking[d] /\ tracking'[d])
            => (NextStep /\ BelowMovingAverage(d))]_vars

\* a completed sell that closed the position has just been notified
C4_Witness ==
    \E d \in DataSet :
        /\ Notified(d, {"Completed"})
        /\ ~event.isbuy
        /\ event.pending
        /\ position[d] = 0

\* C5: a fill notified for an instrument with no pending order ends the
\* run with an error and changes neither the reference low nor tracking.
C5_UnsolicitedFillIsFatal ==
    [][\A d \in DataSet :
          (NotifiedStep(d, {"Completed"}) /\ ~event'.pending)
          => (raised' # "none" /\ UNCHANGED <<entry_low, tracking>>)]_vars

\* C6: a canceled, margin or rejected notification clears the pending
\* record and leaves tracking, the reference low and the position alone.
C6_RefusalOnlyClearsPending ==
    [][\A d \in DataSet :
          NotifiedStep(d, {"Canceled", "Margin", "Rejected"})
          => /\ order_pending'[d] = None
             /\ tracking'[d] = tracking[d]
             /\ entry_low'[d] = entry_low[d]
             /\ position'[d] = position[d]]_vars

\* a stop-loss sell of an open position has just been refused
C6_Witness ==
    \E d \in DataSet :
        /\ Notified(d, {"Canceled", "Margin", "Rejected"})
        /\ ~event.isbuy
        /\ event.pending
        /\ order_pending[d] = None
        /\ tracking[d]
        /\ entry_low[d] # None
        /\ position[d] > 0

\* C7: for a flat instrument with no pending order and enough history,
\* next() sets tracking on a bar whose close is strictly below the moving
\* average and leaves a false tracking flag false on any other bar.
C7_TrackingStarts ==
    [][\A d \in DataSet :
          ( /\ NextStep
            /\ position[d] = 0
            /\ order_pending[d] = None
            /\ EnoughHistory(d) )
          => /\ (BelowMovingAverage(d) => tracking'[d])
             /\ (~tracking[d] /\ ~BelowMovingAverage(d) => ~tracking'[d])]_vars

\* next() has run on a bar that closed exactly at the moving average and
\* the flat instrument is still not tracking
C7_Witness ==
    \E d \in DataSet :
        /\ event.op = "next"
        /\ position[d] = 0
        /\ order_pending[d] = None
        /\ EnoughHistory(d)
        /\ sma_window * current_close(d) = SumSeq(LastN(close[d], sma_window))
        /\ ~tracking[d]

\* C8: a true tracking flag stays true over every step but the
\* notification of a completed sell for the instrument.
C8_TrackingPersists ==
    [][\A d \in DataSet :
          (tracking[d] /\ ~(NotifiedStep(d, {"Completed"}) /\ ~event'.isbuy))
          => tracking'[d]]_vars

\* a completed buy has just been notified and the instrument still tracks
C8_Witness ==
    \E d \in DataSet :
        /\ Notified(d, {"Completed"})
        /\ event.isbuy
        /\ position[d] > 0
        /\ tracking[d]

\* C9: a next() on an instrument with fewer than max(sma_window,
\* high_window) bars changes none of its tracking flag, reference low and
\* pending order, submits nothing, emits no intent and raises nothing.
C9_WarmupIsInert ==
    [][\A d \in DataSet :
          (NextStep /\ ~EnoughHistory(d))
          => /\ tracking'[d] = tracking[d]
             /\ entry_low'[d] = entry_low[d]
             /\ order_pending'[d] = order_pending[d]
             /\ book'[d] = book[d]
             /\ intent'[d] = NoIntent
             /\ raised' = "none"]_vars

\* next() has run on a bar below the moving average that came before the
\* longer window was full, and tracking did not start
C9_Witness ==
    \E d \in DataSet :
        /\ event.op = "next"
        /\ ~EnoughHistory(d)
        /\ BelowMovingAverage(d)
        /\ ~tracking[d]

\* C10: recording an equity point dated on or before the last recorded
\* date raises an error, appends nothing and leaves the drawdown state.
C10_OutOfOrderRecordRejected ==
    [][ ( /\ dates # <<>>
          /\ Len(dates') = Len(dates) + 1
          /\ dates'[Len(dates')] <= dates[Len(dates)] )
        => ( /\ raised' # "none"
             /\ UNCHANGED <<portfolio_values, dates, peak_value, max_drawdown,
                            max_drawdown_duration, current_drawdown_duration,
                            in_drawdown>> )]_vars

\* the step is a call of the analyzer's next() that appended a record
RecordStep == Len(portfolio_values') = Len(portfolio_values) + 1

\* the value of the latest record
LastValue == portfolio_values[Len(portfolio_values)]

\* C12: for every sequence of recorded equity values the maximum drawdown
\* fraction lies between 0 and 1 and no record makes it smaller.
C12_MaxDrawdownMonotoneBounded ==
    /\ [](/\ max_drawdown[2] > 0
          /\ max_drawdown[1] >= 0
          /\ max_drawdown[1] <= max_drawdown[2])
    /\ [][~FracLess(max_drawdown', max_drawdown)]_vars

\* a drawdown shallower than the deepest one has just been recorded
C12_Witness ==
    /\ raised = "none"
    /\ Len(portfolio_values) >= 3
    /\ in_drawdown
    /\ LastValue < peak_value
    /\ FracLess(Frac(peak_value - LastValue, peak_value), max_drawdown)
    /\ FracLess(max_drawdown, <<1, 1>>)

\* C13: after every record that next() completes, peak_value is the maximum
\* of the values recorded so far, and after the first record it is that
\* record's value, whatever the broker held at start().
C13_PeakIsRunningMaximum ==
    (portfolio_values # <<>> /\ raised = "none")
        => /\ peak_value = MaxSeq(portfolio_values)
           /\ Len(portfolio_values) = 1 => peak_value = portfolio_values[1]
           /\ start_value = Some(portfolio_values[1])

\* the peak was set by a record after the first and the latest record is
\* below it
C13_Witness ==
    /\ raised = "none"
    /\ Len(portfolio_values) >= 3
    /\ peak_value > portfolio_values[1]
    /\ peak_value > LastValue
    /\ peak_value = MaxSeq(portfolio_values)

\* C14: a record whose value is strictly above the peak it is compared with
\* ends the drawdown: in_drawdown is false, the running day count is 0, and
\* the maximum day count and maximum fraction are as before the record.
C14_NewHighEndsDrawdown ==
    [][ ( /\ RecordStep
          /\ raised' = "none"
          /\ portfolio_values'[Len(portfolio_values')]
                 > PeakAtRecord(portfolio_values'[Len(portfolio_values')]) )
        => ( /\ ~in_drawdown'
             /\ current_drawdown_duration' = 0
             /\ peak_value' = portfolio_values'[Len(portfolio_values')]
             /\ UNCHANGED <<max_drawdown_duration, max_drawdown>> )]_vars

\* a new high has just ended a drawdown of at least two days
C14_Witness ==
    /\ raised = "none"
    /\ Len(portfolio_values) >= 3
    /\ LastValue = peak_value
    /\ LastValue > portfolio_values[Len(portfolio_values) - 1]
    /\ ~in_drawdown
    /\ current_drawdown_duration = 0
    /\ max_drawdown_duration >= 2

\* the example's first n days have been recorded, in order
ExampleRecorded(n) ==
    /\ raised = "none"
    /\ portfolio_values = SubSeq(ExampleEquity, 1, n)

\* C11: recording 100, 90, 95, 80, 120 takes the peak through 100, 100, 100,
\* 100, 120 and ends with a maximum drawdown of 0.20 that lasted 3 days,
\* the first record not being a drawdown day.
C11_WorkedExample ==
    /\ \A n \in 1..4 : ExampleRecorded(n) => peak_value = 100
    /\ ExampleRecorded(1) => max_drawdown_duration = 0
    /\ ExampleRecorded(5) => /\ peak_value = 120
                             /\ max_drawdown = <<1, 5>>
                             /\ max_drawdown_duration = 3

\* C15: the ledger holds exactly the records of the trades the engine has
\* closed, one each, in closing order; the notification of a trade that is
\* not closed appends nothing, and a step only ever appends to the ledger.
C15_LedgerIsCloseLog ==
    /\ [](/\ Len(trades) = Len(closed_trades)
          /\ \A i \in 1..Len(trades) : trades[i] = trade_info(closed_trades[i]))
    /\ [][/\ Len(trades') >= Len(trades)
          /\ SubSeq(trades', 1, Len(trades)) = trades
          /\ (open_trades' # open_trades /\ closed_trades' = closed_trades)
                 => trades' = trades]_vars

\* two positions are in the ledger, the one entered later first
C15_Witness ==
    /\ Len(trades) = 2
    /\ open_trades = {}
    /\ trades[1].entry_date > trades[2].entry_date
    /\ trades[1].exit_date < trades[2].exit_date

\* the net results in the ledger that are above 0, and those below 0
Gains == SelectSeq(pnl_comms(trades), LAMBDA p : p > 0)
Losses == SelectSeq(pnl_comms(trades), LAMBDA p : p < 0)

C17_WinRate ==
    /\ trades = <<>> => _calculate_win_rate = <<0, 1>>
    /\ trades # <<>>
           => _calculate_win_rate = Frac(100 * Len(Gains), Len(trades))
    /\ pnl_comms(winning_trades) = Gains
    /\ pnl_comms(losing_trades) = Losses
    /\ Len(winning_trades) + Len(losing_trades) <= Len(trades)

\* a win and a break-even trade are in the ledger: the win rate is 50
C17_Witness ==
    /\ Len(trades) = 2
    /\ Len(Gains) = 1
    /\ Losses = <<>>
    /\ Len(winning_trades) = 1
    /\ losing_trades = <<>>
    /\ _calculate_win_rate = <<50, 1>>

\* the keys of a summary, in order
Keys(summary) == [i \in 1..Len(summary) |-> summary[i][1]]

\* C18: a second call of get_analysis right after a first returns the same
\* summary, with the keys in the fixed order, and a call changes none of
\* the recorded equity points, trades or drawdown fields.
C18_AnalysisIsReadOnly ==
    /\ [](analysis # None
             => /\ analysis = Some(get_analysis)
                /\ Keys(analysis[1]) = SummaryKeys)
    /\ [][analysis' # analysis
            => UNCHANGED <<start_date, start_value, end_date, end_value,
                           portfolio_values, dates, daily_returns,
                           trades, winning_trades, losing_trades,
                           peak_value, max_drawdown, max_drawdown_duration,
                           current_drawdown_duration, in_drawdown>>]_vars

\* a summary was taken of a run with recorded points, trades and a drawdown
C18_Witness ==
    /\ analysis # None
    /\ Len(portfolio_values) = Len(ExampleEquity)
    /\ Len(trades) = 2
    /\ max_drawdown_duration > 0
    /\ Item(analysis[1], "total_trades") = 2

\* C19: the CAGR is 0 when the first and last dates are no day apart or the
\* start or end value is missing, and computing it never raises.
C19_CagrNeverRaises ==
    /\ raised # "OverflowError"
    /\ (\/ Falsy(start_value) \/ Falsy(end_value)
        \/ start_date = None \/ end_date = None
        \/ end_date[1] - start_date[1] <= 0) => _calculate_cagr.zero

\* C20: the Sharpe ratio is 0 with fewer than 2 daily returns or with all
\* daily returns equal, and no recorded equity sequence makes the
\* computation of the daily returns or of the ratio divide by zero.
C20_SharpeNeverDividesByZero ==
    /\ Len(daily_returns) < 2 => _calculate_sharpe_ratio.zero
    /\ (\A i, j \in 1..Len(daily_returns) :
            daily_returns[i] = daily_returns[j]) => _calculate_sharpe_ratio.zero
    /\ ~(/\ raised = "ZeroDivisionError"
         /\ Len(portfolio_values) >= 2
         /\ portfolio_values[Len(portfolio_values) - 1] = 0)

\* C21: the record of a closed trade carries the size of the position that
\* was closed and the price it was closed at, which is the entry price plus
\* the gross profit per unit.
C21_RecordHasExitPriceAndSize ==
    [][Len(trades') = Len(trades) + 1
       => \E t \in open_trades \ open_trades' :
            LET record == trades'[Len(trades')] IN
            /\ record.size = t.size
            /\ record.exit_price
                   = Frac(record.pnl * t.price[2] + t.price[1] * t.size,
                          t.size * t.price[2])]_vars

\* C30: the running drawdown day count lies between 0 and the maximum day
\* count and is 0 outside a drawdown; the maximum never decreases; a
\* completed record at or below the peak it is compared with sets
\* in_drawdown, adds exactly one day and leaves that peak in place.
C30_DrawdownDayCount ==
    /\ [](/\ 0 <= current_drawdown_duration
          /\ current_drawdown_duration <= max_drawdown_duration
          /\ ~in_drawdown => current_drawdown_duration = 0)
    /\ [][/\ max_drawdown_duration' >= max_drawdown_duration
          /\ ( /\ RecordStep
               /\ raised' = "none"
               /\ portfolio_values'[Len(portfolio_values')]
                      <= PeakAtRecord(portfolio_values'[Len(portfolio_values')]) )
             => ( /\ in_drawdown'
                  /\ current_drawdown_duration' = current_drawdown_duration + 1
                  /\ peak_value'
                       = PeakAtRecord(portfolio_values'[Len(portfolio_values')]) )
         ]_vars

\* a record equal to the peak has just extended a drawdown to a third day
C30_Witness ==
    /\ raised = "none"
    /\ Len(portfolio_values) >= 3
    /\ LastValue = peak_value
    /\ in_drawdown
    /\ current_drawdown_duration = 3
    /\ max_drawdown_duration = 3

\* C27: with the engine following the protocol, an instrument with an open
\* position and no pending order has a reference low, and a flat
\* instrument with no pending order has none.
C27_OpenPositionHasReferenceLow ==
    \A d \in DataSet :
        order_pending[d] = None
            => /\ position[d] > 0 => entry_low[d] # None
               /\ position[d] = 0 => entry_low[d] = None

\* a position is open with its buy order ended and the reference low set
C27_Witness ==
    \E d \in DataSet :
        /\ order_pending[d] = None
        /\ position[d] > 0
        /\ entry_low[d] = Some(low[d])
        /\ Notified(d, {"Completed"})

\* C28: a call of next() gives the broker at most one order per instrument:
\* a buy only for an instrument that is flat and is tracked when the order
\* is given, a sell only for an instrument with an open position.
C28_OneIntentPerBar ==
    [][NextStep =>
         \A d \in DataSet :
            /\ intent'[d].kind = "buy" => (position[d] = 0 /\ tracking'[d])
            /\ intent'[d].kind = "sell" => position[d] > 0
            /\ intent'[d].kind = "none" => book'[d] = book[d]
            /\ intent'[d].kind # "none"
                   => /\ Len(book'[d]) = Len(book[d]) + 1
                      /\ SubSeq(book'[d], 1, Len(book[d])) = book[d]
                      /\ book'[d][Len(book'[d])].isbuy
                             = (intent'[d].kind = "buy")]_vars

\* next() has just bought an instrument it began to track on an earlier bar
C28_Witness ==
    \E d \in DataSet :
        /\ event.op = "next"
        /\ intent[d].kind = "buy"
        /\ position[d] = 0
        /\ tracking[d]
        /\ ~CloseBelowSMA(d)

\* C26: a notification clears an instrument's pending order only with
\* status Completed, Canceled, Margin or Rejected; any other status, a
\* partial fill for one, leaves it set, so next() emits nothing for an
\* instrument whose order is still on the broker's book.
C26_PendingClearedOnlyAtEnd ==
    [][\A d \in DataSet :
         /\ NotifiedStep(d, {"Submitted", "Accepted", "Partial"})
                => order_pending'[d] # None
         /\ (event'.op = "notify_order" /\ event'.data = d
                /\ order_pending[d] # None /\ order_pending'[d] = None)
                => event'.status \in {"Completed", "Canceled", "Margin",
                                      "Rejected"}
         /\ (NextStep /\ book[d] # <<>>) => intent'[d] = NoIntent]_vars

\* the step delivers the bars of a new date
FeedStep == phase = "bars" /\ phase' = "notify"

\* the strategy running is the optimized class
Optimized == strategy_class = "Breakout20StrategyOptimized"

\* C23: every call of next() evaluates the registered instruments one after
\* the other, each exactly once and in registration order, and the bars of a
\* later date are delivered only after such a call has finished for the
\* date before
C23_EveryInstrumentOncePerDate ==
    /\ [][NextStep => event'.evaluated = datas]_vars
    /\ [][FeedStep => (event.op = "init"
                       \/ (event.op = "next" /\ event.evaluated = datas))]_vars

\* next() has evaluated both instruments of the universe, the second one
\* emitting an intent
C23_Witness ==
    /\ event.op = "next"
    /\ event.evaluated = <<1, 2>>
    /\ intent[2].kind = "buy"

\* C25: under the optimized strategy the number of instruments with an open
\* position never exceeds max_positions
C25_PositionCap == Optimized => current_positions <= max_positions

\* the filters as the rule states them: positions at the cap, volume under
\* the minimum, or average true range over 5% of the close
RejectedByFilter(d) ==
    \/ Cardinality({e \in DataSet : position[e] > 0}) >= max_positions
    \/ volume[d] < min_volume
    \/ atr[d] * 20 > current_close(d)

\* next() takes d to the no-position rule: enough history, nothing pending, flat
FlatAndFree(d) ==
    /\ EnoughHistory(d)
    /\ order_pending[d] = None
    /\ position[d] = 0

\* C29: in a call of next() of the optimized strategy, a flat instrument
\* whose bar a filter rejects keeps its tracking flag and emits nothing;
\* one no filter rejects ends as the base handle_no_position leaves it
C29_FiltersFrameEntry ==
    [][NextStep /\ Optimized
       => \A d \in DataSet :
            FlatAndFree(d) =>
              IF RejectedByFilter(d)
              THEN /\ tracking'[d] = tracking[d]
                   /\ intent'[d] = NoIntent
                   /\ book'[d] = book[d]
                   /\ order_pending'[d] = None
              ELSE \E size \in Sizes :
                     LET st0 == [tracking |-> tracking,
                                 order_pending |-> order_pending,
                                 book |-> book, intent |-> intent,
                                 evaluated |-> <<>>]
                         base == handle_no_position(st0, d, size)
                     IN  /\ tracking'[d] = base.tracking[d]
                         /\ intent'[d] = base.intent[d]
                         /\ book'[d] = base.book[d]
                         /\ order_pending'[d] = base.order_pending[d]]_vars

\* next() of the optimized strategy has just left a flat instrument
\* untracked although its close is below the average: its volume is too low
C29_Witness ==
    /\ Optimized
    /\ event.op = "next"
    /\ \E d \in DataSet :
         /\ FlatAndFree(d)
         /\ BelowMovingAverage(d)
         /\ volume[d] < min_volume
         /\ ~tracking[d]

\* the strategy section gives a window that is not strictly positive
NonPositiveWindow ==
    \E w \in {config.sma_window, config.high_window} : w # None /\ w[1] <= 0

\* C22: with a window in the configuration that is not strictly positive
\* the runner never gets past _setup_cerebro: no strategy class is handed
\* to the engine and no backtest runs, whatever the strategy name; every
\* step that leaves the runner where it was ends in a ValueError
C22_NonPositiveWindowRejected ==
    /\ [](NonPositiveWindow
          => cerebro = None /\ runner \in {"init", "configured"})
    /\ [][NonPositiveWindow /\ runner' = runner
          => raised' = "ValueError"]_vars

\* a configuration naming another strategy with a window of 0 passed the
\* loader and was refused by _setup_cerebro
C22_Witness ==
    /\ NonPositiveWindow
    /\ config.name = Some("Momentum")
    /\ runner = "configured"
    /\ raised = "ValueError"

\* the step is a call of get_trades_dataframe that returned a new table
TableStep == trades_df' # trades_df

\* table holds rows by non-decreasing entry date
ByEntryDate(table) ==
    \A i \in 1..(Len(table) - 1) :
        table[i].entry_date <= table[i + 1].entry_date

\* C24 as stated: the table get_trades_dataframe returns holds the records
\* of the ledger themselves, each once, by non-decreasing entry date
C24_TableIsLedgerSorted ==
    [][TableStep
       => LET table == trades_df'[1] IN
          /\ Len(table) = Len(trades)
          /\ ByEntryDate(table)
          /\ \E p \in RowOrders(Len(trades)) :
               \A i \in 1..Len(table) : table[i] = trades[p[i]]]_vars

\* row is the ledger record with its six numeric columns at 2 decimals
RoundedCopy(row, record) ==
    /\ row.entry_date = record.entry_date
    /\ row.exit_date = record.exit_date
    /\ row.symbol = record.symbol
    /\ row.size = record.size
    /\ row.duration = record.duration
    /\ row.entry_price = round(record.entry_price, 2)
    /\ row.exit_price = round(record.exit_price, 2)
    /\ <<row.pnl, 1>> = round(<<record.pnl, 1>>, 2)
    /\ <<row.pnl_comm, 1>> = round(<<record.pnl_comm, 1>>, 2)
    /\ <<row.commission, 1>> = round(<<record.commission, 1>>, 2)
    /\ row.return_pct = round(record.return_pct, 2)

\* C24, amended: the table holds one row per ledger record, none added or
\* dropped, each the record with its numeric columns rounded to 2 decimals,
\* by non-decreasing entry date; it is empty when the ledger is
C24_TableIsRoundedLedgerSorted ==
    [][TableStep
       => LET table == trades_df'[1] IN
          /\ Len(table) = Len(trades)
          /\ ByEntryDate(table)
          /\ \E p \in RowOrders(Len(trades)) :
               \A i \in 1..Len(table) :
                   RoundedCopy(table[i], trades[p[i]])]_vars

\* a table of two rows taken from a ledger whose records are not in entry
\* order, one of them at an entry price with three decimals
C24_Witness ==
    /\ trades_df # None
    /\ Len(trades_df[1]) = 2
    /\ Len(trades) = 2
    /\ trades[1].entry_date > trades[2].entry_date
    /\ \E i \in 1..2 : round(trades[i].entry_price, 2) # trades[i].entry_price

====
